---- MODULE Spec2Model ----
(***************************************************************************)
(* Model of the eldritch-shield hand pipeline:                             *)
(*   HandTracker.onResults  (landmarks -> HandData | null)                 *)
(*   App.handleHandUpdate   (the single-slot hand-off handDataRef)         *)
(*   CreateRig              (render + per-frame callback: smoothed pose)   *)
(*   Shield                 (per-frame callback: scale-in / scale-out)     *)
(*                                                                         *)
(* Numbers.  JavaScript doubles are modelled as fixed-point values with    *)
(* the IEEE special values kept apart: a number is a record                *)
(* [k |-> "num", v |-> integer], NaN, +Infinity or -Infinity.  Sums,       *)
(* differences and products of landmark coordinates are exact; the         *)
(* product with the interpolation factor 0.1 is rounded to the nearest     *)
(* unit, as a double rounds to its nearest representable value.            *)
(*   landmark coordinate  : units of 1/GridN                               *)
(*   HandData.position    : units of 1/GridN                               *)
(*   smoothedPosition     : units of 1/(2*GridN) world units               *)
(*   Shield scale         : units of 1/Scale                               *)
(*   quaternion about z   : its half angle, 16*HalfOctant units per turn   *)
(***************************************************************************)
EXTENDS Integers, Sequences, FiniteSets, TLC

\* ---------------------------------------------------------------- bounds
GridN == 10
MaxXIdx == 3
Scale == 1000
HalfOctant == 18

\* ------------------------------------------------------ program constants
\* dWristToMiddleTip > dWristToMiddleMCP * 1.8      (1.8 = ThreshNum/ThreshDen)
ThreshNum == 9
ThreshDen == 5
\* lerp(targetPos, 0.1), slerp(rotation, 0.1), scale.lerp(..., 0.1)
AlphaNum == 1
AlphaDen == 10
\* scale.x < 0.01                                   (0.01 = 1/CutoffDen)
CutoffDen == 100

\* ------------------------------------------------------------- doubles
Num(n) == [k |-> "num", v |-> n]
NaN == [k |-> "nan", v |-> 0]
PInf == [k |-> "inf", v |-> 1]
NInf == [k |-> "inf", v |-> -1]

IsFinite(a) == a.k = "num"

Sign(n) == IF n > 0 THEN 1 ELSE IF n < 0 THEN -1 ELSE 0

Abs(n) == IF n < 0 THEN -n ELSE n

FNeg(a) ==
    CASE a.k = "nan" -> NaN
      [] a.k = "inf" -> [k |-> "inf", v |-> -a.v]
      [] OTHER -> Num(-a.v)

FAdd(a, b) ==
    CASE a.k = "nan" \/ b.k = "nan" -> NaN
      [] a.k = "inf" /\ b.k = "inf" -> IF a.v = b.v THEN a ELSE NaN
      [] a.k = "inf" -> a
      [] b.k = "inf" -> b
      [] OTHER -> Num(a.v + b.v)

FSub(a, b) == FAdd(a, FNeg(b))

FMul(a, b) ==
    CASE a.k = "nan" \/ b.k = "nan" -> NaN
      [] a.k = "inf" \/ b.k = "inf" ->
            IF Sign(a.v) * Sign(b.v) = 0 THEN NaN
            ELSE [k |-> "inf", v |-> Sign(a.v) * Sign(b.v)]
      [] OTHER -> Num(a.v * b.v)

\* a > b on doubles: false as soon as one side is NaN
FGt(a, b) ==
    CASE a.k = "nan" \/ b.k = "nan" -> FALSE
      [] a.k = "inf" /\ b.k = "inf" -> a.v > b.v
      [] a.k = "inf" -> a.v > 0
      [] b.k = "inf" -> b.v < 0
      [] OTHER -> a.v > b.v

\* n/d rounded to the nearest integer, halves away from zero
RoundDiv(n, d) ==
    IF n >= 0 THEN (2 * n + d) \div (2 * d)
    ELSE -((2 * (-n) + d) \div (2 * d))

\* a * (num/den), rounded to the unit
FFrac(a, num, den) ==
    CASE a.k = "nan" -> NaN
      [] a.k = "inf" -> a
      [] OTHER -> Num(RoundDiv(a.v * num, den))

\* ------------------------------------------------------------ landmarks
\* A landmark keeps the two coordinates the code reads (x, y).
Pt(x, y) == [x |-> x, y |-> y]

\* The landmarks of one hand that onResults reads: [0], [9] and [12].
Hand(w, m, t) == [wrist |-> w, middleFingerMCP |-> m, middleFingerTip |-> t]

\* results.multiHandLandmarks: a sequence of hands, empty when no hand is found
Results(hands) == [multiHandLandmarks |-> hands]

NoHandResults == Results(<<>>)

\* handDataRef.current = null
NULL == [absent |-> TRUE]

One == Num(GridN)

\* Math.pow(a.x - b.x, 2) + Math.pow(a.y - b.y, 2): the radicand of a planar distance
SqDist(a, b) ==
    FAdd(FMul(FSub(a.x, b.x), FSub(a.x, b.x)), FMul(FSub(a.y, b.y), FSub(a.y, b.y)))

\* A mis-typed comparison: >= in place of >.
GestureGe(h) ==
    LET tip2 == FMul(SqDist(h.middleFingerTip, h.wrist), Num(ThreshDen * ThreshDen))
        mcp2 == FMul(SqDist(h.middleFingerMCP, h.wrist), Num(ThreshNum * ThreshNum))
    IN IF FGt(tip2, mcp2) \/ tip2 = mcp2 THEN "OPEN" ELSE "FIST"

\* dWristToMiddleTip > dWristToMiddleMCP * 1.8 ? 'OPEN' : 'FIST'.  Both sides are
\* square roots (or Infinity, or NaN), the square root is monotone and maps
\* Infinity and NaN to themselves, so sqrt(A) > sqrt(B) * (9/5) is decided on
\* the radicands as 25 * A > 81 * B.
Gesture(h) ==
    LET tip2 == FMul(SqDist(h.middleFingerTip, h.wrist), Num(ThreshDen * ThreshDen))
        mcp2 == FMul(SqDist(h.middleFingerMCP, h.wrist), Num(ThreshNum * ThreshNum))
    IN IF FGt(tip2, mcp2) THEN "OPEN" ELSE "FIST"

\* new THREE.Vector3(x, y, 0) with x = (1 - wrist.x) * 2 - 1, y = -(wrist.y * 2 - 1)
Position(h) ==
    [x |-> FSub(FMul(FSub(One, h.wrist.x), Num(2)), One),
     y |-> FNeg(FSub(FMul(h.wrist.y, Num(2)), One)),
     z |-> Num(0)]

RECURSIVE Gcd(_, _)
Gcd(a, b) == IF b = 0 THEN a ELSE Gcd(b, a % b)

\* A rotation about z is kept as the direction it turns (0,1,0) to, reduced to
\* the shortest integer vector of its ray; NaNRot is a quaternion of NaNs.
Rot(dx, dy) == [k |-> "rot", dx |-> dx, dy |-> dy]

NaNRot == [k |-> "nan", dx |-> 0, dy |-> 0]

Identity == Rot(0, 1)

\* vDirection = Vector3((1 - mcp.x) - (1 - wrist.x), -(mcp.y - wrist.y), 0).normalize()
\* quaternion = setFromUnitVectors((0,1,0), vDirection).
\* normalize() divides by (length || 1): the zero vector stays zero, and
\* setFromUnitVectors then yields the identity; a component that is not finite
\* leaves a NaN in the vector and in the quaternion.
Rotation(h) ==
    LET dx == FSub(FSub(One, h.middleFingerMCP.x), FSub(One, h.wrist.x))
        dy == FNeg(FSub(h.middleFingerMCP.y, h.wrist.y))
    IN IF ~(IsFinite(dx) /\ IsFinite(dy)) THEN NaNRot
       ELSE IF dx.v = 0 /\ dy.v = 0 THEN Identity
       ELSE LET g == Gcd(Abs(dx.v), Abs(dy.v))
            IN Rot(dx.v \div g, dy.v \div g)

\* The argument onResults passes to onHandUpdate.
OnResultsData(results) ==
    IF Len(results.multiHandLandmarks) = 0 THEN NULL
    ELSE LET landmarks == results.multiHandLandmarks[1]
         IN [position |-> Position(landmarks),
             rotation |-> Rotation(landmarks),
             gesture |-> Gesture(landmarks)]

\* A hand-off that drops the "no hand" deliveries.
HandleHandUpdateKeep(current, data) == IF data = NULL THEN current ELSE data

\* handleHandUpdate: handDataRef.current = data
HandleHandUpdate(current, data) == data

\* ------------------------------------------------------------------ rig
\* A gesture test that forgets the gesture.
TargetActiveAnyHand(handData) == handData # NULL

\* handData && handData.gesture === 'OPEN'
TargetActive(handData) == handData # NULL /\ handData.gesture = "OPEN"

\* An interpolation with the operands of the difference swapped.
LerpSwapped(current, target) ==
    FAdd(current, FFrac(FSub(current, target), AlphaNum, AlphaDen))

\* THREE lerp on one component: this.x += (v.x - this.x) * alpha, alpha = 0.1
Lerp(current, target) ==
    FAdd(current, FFrac(FSub(target, current), AlphaNum, AlphaDen))

\* Vector3.lerp(v, 0.1)
Lerp3(current, target) ==
    [x |-> Lerp(current.x, target.x),
     y |-> Lerp(current.y, target.y),
     z |-> Lerp(current.z, target.z)]

\* targetPos = Vector3(position.x * (viewport.width / 2),
\*                     position.y * (viewport.height / 2), 0)
\* (a position of p/GridN times a half width of w/2 is p*w units of 1/(2*GridN))
TargetPos(handData, vp) ==
    [x |-> FMul(handData.position.x, Num(vp.width)),
     y |-> FMul(handData.position.y, Num(vp.height)),
     z |-> Num(0)]

Turn == 16 * HalfOctant

\* Half angle of the quaternion setFromUnitVectors((0,1,0), d) for the eight
\* directions d the camera frames below point the hand in: the rotation by
\* theta about z turns (0,1,0) to (-sin theta, cos theta, 0).
HalfAngle(r) ==
    CASE r = Rot(0, 1) -> 0
      [] r = Rot(-1, 1) -> HalfOctant
      [] r = Rot(-1, 0) -> 2 * HalfOctant
      [] r = Rot(-1, -1) -> 3 * HalfOctant
      [] r = Rot(0, -1) -> 4 * HalfOctant
      [] r = Rot(1, -1) -> -3 * HalfOctant
      [] r = Rot(1, 0) -> -2 * HalfOctant
      [] r = Rot(1, 1) -> -HalfOctant

\* Quaternion.slerp(qb, 0.1) on rotations about z.  cosHalfTheta < 0 (the two
\* half angles more than a quarter turn apart) negates qb, which adds half a
\* turn to its half angle; the result lies 0.1 of the way along the arc.
Slerp(current, target) ==
    IF current.k = "nan" \/ target.k = "nan" THEN NaN
    ELSE LET d0 == (HalfAngle(target) - current.v) % Turn
             d1 == IF 2 * d0 > Turn THEN d0 - Turn ELSE d0
             d == IF 4 * Abs(d1) > Turn
                  THEN (IF d1 > 0 THEN d1 - Turn \div 2 ELSE d1 + Turn \div 2)
                  ELSE d1
         IN Num((current.v + RoundDiv(d * AlphaNum, AlphaDen)) % Turn)

\* A rig that lets the pose fall back to the neutral position without a hand.
RigPositionDecay(handData, current, vp) ==
    IF TargetActive(handData) THEN Lerp3(current, TargetPos(handData, vp))
    ELSE Lerp3(current, [x |-> Num(0), y |-> Num(0), z |-> Num(0)])

\* smoothedPosition after one frame of CreateRig
RigPosition(handData, current, vp) ==
    IF TargetActive(handData) THEN Lerp3(current, TargetPos(handData, vp))
    ELSE current

\* smoothedRotation after one frame of CreateRig
RigRotation(handData, current) ==
    IF TargetActive(handData) THEN Slerp(current, handData.rotation)
    ELSE current

\* --------------------------------------------------------------- inputs
P(i, j) == Pt(Num(i), Num(j))

\* What the hand detector may answer for a camera frame.
CameraResults ==
    { NoHandResults,
      \* open hand pointing sideways, lower left of the image
      Results(<<Hand(P(2, 8), P(1, 8), P(0, 8))>>),
      \* open hand pointing sideways, lower right of the image
      Results(<<Hand(P(8, 8), P(6, 8), P(3, 8))>>),
      \* fist: W=(0.5,0.5) M=(0.5,0.3) T=(0.5,0.4)
      Results(<<Hand(P(5, 5), P(5, 3), P(5, 4))>>) }

\* Frames with a coordinate that is not a number: a NaN wrist, a finger tip
\* at -Infinity, a NaN knuckle.
InvalidResults ==
    { Results(<<Hand(Pt(NaN, Num(5)), P(5, 3), P(5, 0))>>),
      Results(<<Hand(P(2, 8), P(2, 6), Pt(Num(2), NInf))>>),
      Results(<<Hand(P(2, 8), Pt(Num(2), NaN), P(2, 3))>>) }

\* viewport of the canvas at z = 0, in world units: with the camera of Scene3D
\* (z = 5, fov 75) the height is 2 * 5 * tan(37.5 deg) = 7.7, the width the
\* height times the aspect ratio of the window (here 1 and 16:9)
Viewports == { [width |-> 8, height |-> 8], [width |-> 14, height |-> 8] }

\* Every hand with its three landmarks on the grid.
GridPoints == { P(i, j) : i \in 0..MaxXIdx, j \in 0..GridN }

GridResults == { Results(<<Hand(w, m, t)>>) : w \in GridPoints, m \in GridPoints, t \in GridPoints }

\* ---------------------------------------------------------------- state
VARIABLES
    trackerState,      \* HandTracker: "pending" (effect not run), "mounted", "tornDown"
    cameraRunning,     \* camera.start() was called (there is no camera.stop())
    sending,           \* a hands.send(...) is in flight
    handDataRef,       \* App's handDataRef.current
    lastResults,       \* the results onResults handled last
    sinceRead,         \* deliveries since the last frame of CreateRig (0, 1, 2 = more)
    viewport,          \* viewport CreateRig's closure holds
    visibleProp,       \* the visible prop Shield's closure holds
    rigVisible,        \* shieldGroupRef.current.visible
    smoothedPosition,  \* smoothedPosition.current (= the group's position)
    smoothedRotation,  \* smoothedRotation.current (= the group's quaternion)
    handData,          \* const handData of CreateRig's last frame, or Unread
    scale,             \* Shield's groupRef.current.scale (x = y = z)
    shieldVisible,     \* Shield's groupRef.current.visible
    targetScale        \* const targetScale of Shield's last frame, or NoTarget

vars == <<trackerState, cameraRunning, sending, handDataRef, lastResults, sinceRead,
          viewport, visibleProp, rigVisible, smoothedPosition, smoothedRotation,
          handData, scale, shieldVisible, targetScale>>

trackerVars == <<trackerState, cameraRunning, sending, handDataRef, lastResults, sinceRead>>

rigVars == <<rigVisible, smoothedPosition, smoothedRotation, handData>>

shieldVars == <<scale, shieldVisible, targetScale>>

Unread == [unread |-> TRUE]

NoTarget == Num(-1)

Origin == [x |-> Num(0), y |-> Num(0), z |-> Num(0)]

\* useRef(null); useRef(new Vector3(0,0,0)); useRef(new Quaternion());
\* <group visible={false}>; a new THREE.Group has scale (1,1,1) and visible = true;
\* the first render of CreateRig reads handDataRef.current = null.
InitApp ==
    /\ handDataRef = NULL
    /\ lastResults = NoHandResults
    /\ sinceRead = 0
    /\ viewport \in Viewports
    /\ visibleProp = FALSE
    /\ rigVisible = FALSE
    /\ smoothedPosition = Origin
    /\ smoothedRotation = Num(0)
    /\ handData = Unread
    /\ scale = Num(Scale)
    /\ shieldVisible = TRUE
    /\ targetScale = NoTarget

Init == InitApp /\ trackerState = "pending" /\ cameraRunning = FALSE /\ sending = FALSE

\* ------------------------------------------------------------ HandTracker
\* The effect of HandTracker: without a video element it returns at once,
\* otherwise it creates Hands and Camera and calls camera.start().
Mount ==
    /\ trackerState = "pending"
    /\ trackerState' = "mounted"
    /\ \E videoReady \in BOOLEAN : cameraRunning' = videoReady
    /\ UNCHANGED <<sending, handDataRef, lastResults, sinceRead>>
    /\ UNCHANGED <<viewport, visibleProp, rigVars, shieldVars>>

\* The cleanup the effect returns: an empty function.
Teardown ==
    /\ trackerState = "mounted"
    /\ trackerState' = "tornDown"
    /\ UNCHANGED <<cameraRunning, sending, handDataRef, lastResults, sinceRead>>
    /\ UNCHANGED <<viewport, visibleProp, rigVars, shieldVars>>

\* Camera.onFrame: await hands.send({image: videoElement}); the camera waits
\* for it before it takes the next frame.
OnFrame ==
    /\ cameraRunning
    /\ ~sending
    /\ sending' = TRUE
    /\ UNCHANGED <<trackerState, cameraRunning, handDataRef, lastResults, sinceRead>>
    /\ UNCHANGED <<viewport, visibleProp, rigVars, shieldVars>>

\* onResults(results), with the onHandUpdate call it ends in; results is the
\* answer of the detector to the send in flight.
OnResults(results) ==
    /\ sending
    /\ sending' = FALSE
    /\ handDataRef' = HandleHandUpdate(handDataRef, OnResultsData(results))
    /\ lastResults' = results
    /\ sinceRead' = (IF sinceRead < 2 THEN sinceRead + 1 ELSE sinceRead)
    /\ UNCHANGED <<trackerState, cameraRunning>>
    /\ UNCHANGED <<viewport, visibleProp, rigVars, shieldVars>>

\* The detector answers one of the camera frames.
Deliver == \E results \in CameraResults : OnResults(results)

\* --------------------------------------------------------------- CreateRig
\* A render of CreateRig (useThree() subscribes it to the whole store, so a
\* change of the viewport renders it again): the closure of its frame callback
\* gets the viewport, and Shield gets visible = the gesture test on the ref as
\* it is now.  The unchanged prop visible={false} of the group is not applied
\* again.
Render ==
    /\ viewport' \in Viewports
    /\ visibleProp' = TargetActive(handDataRef)
    /\ UNCHANGED <<trackerVars, rigVars, shieldVars>>

\* The useFrame callback of CreateRig.
RigFrame ==
    /\ handData' = handDataRef
    /\ rigVisible' = (IF TargetActive(handDataRef) THEN TRUE ELSE rigVisible)
    /\ smoothedPosition' = RigPosition(handDataRef, smoothedPosition, viewport)
    /\ smoothedRotation' = RigRotation(handDataRef, smoothedRotation)
    /\ sinceRead' = 0
    /\ UNCHANGED <<trackerState, cameraRunning, sending, handDataRef, lastResults>>
    /\ UNCHANGED <<viewport, visibleProp, shieldVars>>

\* ------------------------------------------------------------------ Shield
\* groupRef.current.scale.x < 0.01
BelowCutoff(s) == FGt(Num(Scale), FMul(s, Num(CutoffDen)))

\* The useFrame callback of Shield (the spin of the three rings, which only
\* runs while the group is shown, moves no state the pose depends on).
ShieldFrame ==
    /\ targetScale' = (IF visibleProp THEN Num(Scale) ELSE Num(0))
    /\ scale' = Lerp(scale, targetScale')
    /\ shieldVisible' = ~(BelowCutoff(scale') /\ ~visibleProp)
    /\ UNCHANGED <<trackerVars, viewport, visibleProp, rigVars>>

\* ---------------------------------------------------------- specifications
\* The hand-off and the rig, in a window that is not resized: CreateRig is
\* rendered once, and its viewport is the one of that render.
Next ==
    \/ Mount
    \/ OnFrame
    \/ Deliver
    \/ RigFrame

Spec == Init /\ [][Next]_vars

FairSpec == Spec /\ WF_vars(RigFrame)

\* The hand-off, the life cycle of HandTracker and the scale of the shield.
NextShield ==
    \/ Mount
    \/ Teardown
    \/ OnFrame
    \/ Deliver
    \/ Render
    \/ ShieldFrame

SpecShield == Init /\ [][NextShield]_vars

FairSpecShield == SpecShield /\ WF_vars(ShieldFrame)

\* onResults as a function: started with a send in flight, the detector
\* answers one hand with its landmarks on the grid, or an invalid frame.
InitInterp == InitApp /\ trackerState = "mounted" /\ cameraRunning = TRUE /\ sending = TRUE

InterpResults == GridResults \cup InvalidResults \cup {NoHandResults}

NextInterp == sending /\ \E results \in InterpResults : OnResults(results)

SpecInterp == InitInterp /\ [][NextInterp]_vars

\* ================================================================ claims
Axes == {"x", "y", "z"}

\* The landmarks of the hand in a result, when there is one.
HasHand(results) == Len(results.multiHandLandmarks) > 0

Coordinates(results) ==
    LET h == results.multiHandLandmarks[1]
    IN {h.wrist.x, h.wrist.y, h.middleFingerMCP.x, h.middleFingerMCP.y,
        h.middleFingerTip.x, h.middleFingerTip.y}

AllFinite(results) == \A c \in Coordinates(results) : c.k = "num"

\* Squares of the planar distances wrist-tip and wrist-knuckle, as integers.
DTip2(results) ==
    LET h == results.multiHandLandmarks[1]
    IN (h.middleFingerTip.x.v - h.wrist.x.v) * (h.middleFingerTip.x.v - h.wrist.x.v)
       + (h.middleFingerTip.y.v - h.wrist.y.v) * (h.middleFingerTip.y.v - h.wrist.y.v)

DBase2(results) ==
    LET h == results.multiHandLandmarks[1]
    IN (h.middleFingerMCP.x.v - h.wrist.x.v) * (h.middleFingerMCP.x.v - h.wrist.x.v)
       + (h.middleFingerMCP.y.v - h.wrist.y.v) * (h.middleFingerMCP.y.v - h.wrist.y.v)

\* The latest observation is absent or not an open hand.
Inactive(h) == h = NULL \/ h.gesture # "OPEN"

PoseFinite ==
    /\ \A c \in Axes : smoothedPosition[c].k = "num"
    /\ smoothedRotation.k = "num"

\* Distance of the smoothed pose from the neutral pose: the sum of the
\* coordinates' magnitudes, and the angle to the identity (a half angle of
\* half a turn is the identity again).
NeutralDist(pos, rot) ==
    <<Abs(pos.x.v) + Abs(pos.y.v) + Abs(pos.z.v),
      LET r == rot.v % (Turn \div 2)
      IN IF 2 * r > Turn \div 2 THEN Turn \div 2 - r ELSE r>>

\* The position is as close to the target as an interpolation step can bring
\* it: 0.1 of what is left rounds to nothing.
Near(pos, target) ==
    \A c \in Axes : 2 * AlphaNum * Abs(target[c].v - pos[c].v) < AlphaDen

\* C1: on every frame the target of the shield's scale is 1 when the latest
\* observation is an open hand and 0 otherwise.
C1_ActivationTargetFollowsObservation ==
    [][ShieldFrame =>
          targetScale' = (IF handDataRef # NULL /\ handDataRef.gesture = "OPEN"
                          THEN Num(Scale) ELSE Num(0))]_vars

\* C2: a frame of the rig reads the observation delivered last (absent before
\* the first delivery), whatever was delivered before it; with no delivery
\* since the frame before, it reads the same observation again.
C2_LatestValueHandOff ==
    [][RigFrame =>
          /\ handData' = OnResultsData(lastResults)
          /\ (sinceRead = 0 /\ handData # Unread) => handData' = handData]_vars

\* C2 witness: the rig has read an observation and two deliveries have
\* replaced it since, so the first of them is superseded unread.
C2_Witness ==
    /\ handData # Unread
    /\ handData # NULL
    /\ sinceRead = 2
    /\ handDataRef # handData

\* C3: for a hand with finite landmarks the delivered gesture is OPEN exactly
\* when dTip > 1.8 * dBase (as squares: 25 * dTip^2 > 81 * dBase^2) and FIST
\* otherwise; whatever the landmarks, it is OPEN or FIST.
C3_GestureThreshold ==
    HasHand(lastResults) =>
        /\ handDataRef # NULL
        /\ handDataRef.gesture \in {"OPEN", "FIST"}
        /\ AllFinite(lastResults) =>
              (handDataRef.gesture = "OPEN"
                  <=> ThreshDen * ThreshDen * DTip2(lastResults)
                        > ThreshNum * ThreshNum * DBase2(lastResults))

\* C3 witness: a hand exactly on the boundary dTip = 1.8 * dBase, delivered FIST.
C3_Witness ==
    /\ HasHand(lastResults)
    /\ AllFinite(lastResults)
    /\ DBase2(lastResults) > 0
    /\ ThreshDen * ThreshDen * DTip2(lastResults) = ThreshNum * ThreshNum * DBase2(lastResults)
    /\ handDataRef # NULL
    /\ handDataRef.gesture = "FIST"

InactiveNow == Inactive(handDataRef)

Hidden == BelowCutoff(scale) /\ ~shieldVisible

\* C4: once the latest observation stays absent or a fist, the scale falls
\* below the cutoff and the shield stays hidden.
C4_FistOrNoHandHides == <>[]InactiveNow => <>[]Hidden

\* The smoothed pose is as close to the neutral pose as a step can bring it.
NearNeutral ==
    /\ Near(smoothedPosition, Origin)
    /\ NeutralDist(Origin, smoothedRotation)[2] = 0

NoHand == handDataRef = NULL

\* C5 as claimed: once the observation stays absent, the smoothed pose comes
\* to the origin and to the identity.
C5_NoHandReturnsToNeutral == <>[]NoHand => <>[]NearNeutral

\* C5 amended: a frame of the rig that reads an absent observation holds the
\* pose: its distance from the neutral pose neither grows nor shrinks.
C5_NoHandHoldsPose ==
    [][(RigFrame /\ handDataRef = NULL) =>
          NeutralDist(smoothedPosition', smoothedRotation')
              = NeutralDist(smoothedPosition, smoothedRotation)]_vars

\* C5 witness: a frame has read an absent observation with the pose away from
\* the neutral one.
C5_Witness ==
    /\ handData = NULL
    /\ sinceRead = 0
    /\ rigVisible
    /\ ~Near(smoothedPosition, Origin)

\* C6: a frame with a coordinate that is not finite is delivered as absent,
\* and the smoothed pose stays finite.
C6_InvalidFrameIsAbsent ==
    /\ PoseFinite
    /\ (HasHand(lastResults) /\ ~AllFinite(lastResults)) => handDataRef = NULL

\* C7: after the teardown of HandTracker no step changes the latest observation.
C7_DeliveryAfterTeardownIsNoOp ==
    [][trackerState = "tornDown" => handDataRef' = handDataRef]_vars

\* C8: before the first frame the position is the origin, the orientation the
\* identity and the activation 0; the activation stays within [0, 1].
C8_StartsNeutral ==
    /\ handData = Unread => (smoothedPosition = Origin /\ smoothedRotation = Num(0))
    /\ targetScale = NoTarget => scale = Num(0)
    /\ scale.k = "num" /\ 0 <= scale.v /\ scale.v <= Scale

\* C9: a frame that reads an open hand moves every coordinate by 0.1 of what
\* is left to the target (to the rounding of one unit), never away from the
\* target and never across it, and strictly closer as long as 0.1 of what is
\* left does not round to nothing: frames that read the same open hand under
\* the same viewport bring the position next to the target.
C9_SmoothingConverges ==
    [][(RigFrame /\ handDataRef # NULL /\ handDataRef.gesture = "OPEN") =>
          \A c \in Axes :
             LET t == handDataRef.position[c].v
                        * (IF c = "x" THEN viewport.width
                           ELSE IF c = "y" THEN viewport.height ELSE 0)
                 p == smoothedPosition[c].v
                 q == smoothedPosition'[c].v
             IN /\ 2 * Abs(AlphaDen * (q - p) - AlphaNum * (t - p)) <= AlphaDen
                /\ Abs(t - q) <= Abs(t - p)
                /\ (t - p) * (t - q) >= 0
                /\ 2 * AlphaNum * Abs(t - p) >= AlphaDen => Abs(t - q) < Abs(t - p)]_vars

\* C9 witness: the rig has read an open hand away from the centre and the
\* position has arrived next to its target.
C9_Witness ==
    /\ handData # Unread
    /\ handData # NULL
    /\ handData.gesture = "OPEN"
    /\ handData = handDataRef
    /\ ~Near(Origin, TargetPos(handData, viewport))
    /\ Near(smoothedPosition, TargetPos(handData, viewport))

\* C10: a frame of the rig that reads an absent observation or a fist changes
\* neither the smoothed position, nor the smoothed orientation, nor the
\* visibility of the rig's group; the group becomes visible only in a frame
\* that reads an open hand, and no step makes it invisible again.
C10_InactiveFrameLeavesRig ==
    [][/\ (RigFrame /\ (handDataRef = NULL \/ handDataRef.gesture # "OPEN")) =>
            /\ smoothedPosition' = smoothedPosition
            /\ smoothedRotation' = smoothedRotation
            /\ rigVisible' = rigVisible
       /\ (~rigVisible /\ rigVisible') =>
            (RigFrame /\ handDataRef # NULL /\ handDataRef.gesture = "OPEN")
       /\ rigVisible => rigVisible']_vars

\* C10 witness: a frame has read a fist after the rig was shown and moved.
C10_Witness ==
    /\ handData # Unread
    /\ handData # NULL
    /\ handData.gesture = "FIST"
    /\ sinceRead = 0
    /\ rigVisible
    /\ smoothedPosition # Origin

====
